---------------------------- MODULE Spec2Model ----------------------------
(***************************************************************************)
(* Model of the bedow gallery downloader:                                  *)
(*   - the in-memory rate limit store of src/pages/api/download.ts and the *)
(*     request handler that consults it (lines 1-206);                     *)
(*   - the download run of the page component in the same file            *)
(*     (lines 207-460): downloadWithRetry, downloadAsZip,                  *)
(*     downloadIndividually, downloadImages, handleDownload.               *)
(*   - extractBehanceImages of src/components/RateLimitModal.tsx           *)
(*     (lines 261-367), the extraction the search branch awaits.           *)
(*   - validateAndCleanUrl, extractProjectId, sanitizeFilename,            *)
(*     getHighestQualityUrl and getExtensionFromUrl of the same file       *)
(*     (lines 178-258), and the names the page saves files under.          *)
(*                                                                         *)
(* Time is in milliseconds, as Date.getTime() gives it.  The store keeps   *)
(* its timestamps as ISO strings (toISOString) and reads them back with    *)
(* new Date(s); both have millisecond precision, so the round trip returns *)
(* the same millisecond count and the model keeps the count.  One handler  *)
(* invocation is synchronous between its reads of the clock and is taken   *)
(* to read the same millisecond throughout.                                *)
(***************************************************************************)
EXTENDS Integers, Sequences, FiniteSets, TLC

VARIABLES
    now,             \* the server clock, ms
    rateLimitStore,  \* [ip -> entry]: the module-level rateLimitStore
    res,             \* what the last tracker call or request returned
    log,             \* per ip, the times at which an event was appended to an
                     \* Active window, the last hour's at least
    pending,         \* per ip, the search request of ip that is awaiting
                     \* extractBehanceImages, if any
    extraction,      \* one call of extractBehanceImages: its position, its
                     \* browser, what its scans found and how it ended
    page,            \* the React state of the page (Home)
    run,             \* the download run in progress: the locals of
                     \* downloadAsZip / downloadIndividually / downloadWithRetry
    call             \* one application of a function of the program that keeps
                     \* no state: its argument and what it returned or threw

vars == <<now, rateLimitStore, res, log, pending, extraction, page, run, call>>
serverVars == <<now, rateLimitStore, res, log, pending, extraction, call>>
pageVars == <<page, run>>

---------------------------------------------------------------------------
(* Program constants *)

HOURLY_LIMIT == 20
RATE_LIMIT_WINDOW == 60 * 60 * 1000
MAX_RETRIES == 3

(* Bounds of the model *)

MaxTick == 3     \* the clock visits Instant(0) .. Instant(MaxTick)
MaxLog == 22     \* no more than MaxLog events are appended per client and LogSpan
MaxImages == 5   \* a search result holds MaxImages descriptors
MaxBatch == 3    \* the largest selection where every reply of the endpoints is enumerated
InitUsed == 17   \* the events already recorded for the page's client when it is opened
MaxServerTick == 1   \* the last instant of the clock while requests are interleaved
MaxRaw == 3      \* a scan of the gallery page returns at most MaxRaw image URLs
MaxSlashes == 2  \* a URL ends in at most MaxSlashes slashes
MaxTitle == 3    \* the title of a gallery has at most MaxTitle pieces
MaxSegments == 2 \* an image URL has at most MaxSegments path segments before the file name
MaxOverlap == 1  \* at most MaxOverlap earlier runs are still finalizing their archive

Clients == {"a", "b"}     \* the keys the store may hold
Callers == {"a"}          \* the clients whose requests are enumerated

\* rateLimitStore is a plain object ({}, line 19): for a key it holds no entry
\* for, rateLimitStore[key] is undefined, unless the key is the name of a
\* member of Object.prototype, when it is that member: an object that is
\* truthy and has neither downloads nor resetTime.  getClientIp returns the
\* x-forwarded-for header as sent, so such a key can come with a request.
InheritedKeys == {"constructor"}
Keys == Callers \cup InheritedKeys

\* The instants the clock can show: 0 s, 10 s, exactly one hour, 3601 s, and
\* from there on one hour and one second later each time.
Instant(k) ==
    CASE k = 0 -> 0
      [] k = 1 -> 10 * 1000
      [] k = 2 -> RATE_LIMIT_WINDOW
      [] OTHER -> (k - 2) * (RATE_LIMIT_WINDOW + 1000)

\* How long the log remembers an appended event: one hour and one second.
LogSpan == RATE_LIMIT_WINDOW + 1000

---------------------------------------------------------------------------
(* The rate limit store *)

\* rateLimitStore[ip] === undefined
NoEntry == [exists |-> FALSE, downloads |-> <<>>, resetTime |-> 0]

\* A window that is open for two hours.
NewEntryTwoHours(t) ==
    [exists |-> TRUE, downloads |-> <<>>, resetTime |-> t + 2 * RATE_LIMIT_WINDOW]

\* A filter that appends the time of the call.
FilterDownloadsAppending(downloads, t) == Append(downloads, t)

NewEntry(t) ==
    [exists |-> TRUE, downloads |-> <<>>, resetTime |-> t + RATE_LIMIT_WINDOW]

NoInfo == [used |-> 0, limit |-> 0, remaining |-> 0, resetTime |-> 0]

Max(a, b) == IF a >= b THEN a ELSE b

\* store.downloads.filter(timestamp => new Date(timestamp) > subHours(now, 1))
FilterDownloads(downloads, t) ==
    SelectSeq(downloads, LAMBDA ts : ts > t - RATE_LIMIT_WINDOW)

\* A getRateLimitInfo that opens a window only for a client it has none for.
NeedsResetOnlyWhenMissing(entry, t) == ~entry.exists

\* !store || new Date(store.resetTime) < now
NeedsReset(entry, t) == ~entry.exists \/ entry.resetTime < t

\* getRateLimitInfo(clientIp) called at time t on store st: the store it
\* leaves and the snapshot it returns.
\* For an inherited key store is truthy and new Date(store.resetTime) is an
\* invalid date, which is not < now: the reset branch is not taken (so the
\* store never comes to hold an entry for the key), and
\* store.downloads.filter throws a TypeError (thrown).
getRateLimitInfo(st, ip, t) ==
    IF ip \in InheritedKeys
    THEN [store |-> st, info |-> NoInfo, thrown |-> TRUE]
    ELSE IF NeedsReset(st[ip], t)
    THEN [store |-> [st EXCEPT ![ip] = NewEntry(t)],
          info  |-> [used |-> 0, limit |-> HOURLY_LIMIT,
                     remaining |-> HOURLY_LIMIT,
                     resetTime |-> t + RATE_LIMIT_WINDOW],
          thrown |-> FALSE]
    ELSE LET kept == FilterDownloads(st[ip].downloads, t)
             used == Len(kept)
         IN  [store |-> [st EXCEPT ![ip].downloads = kept],
              info  |-> [used |-> used, limit |-> HOURLY_LIMIT,
                         remaining |-> Max(0, HOURLY_LIMIT - used),
                         resetTime |-> st[ip].resetTime],
              thrown |-> FALSE]

\* A checkRateLimitOnly that allows every client.
checkRateLimitOnlyAllowing(st, ip, t) ==
    LET r == getRateLimitInfo(st, ip, t)
    IN  [store |-> r.store, allowed |-> TRUE, info |-> r.info, thrown |-> r.thrown]

\* checkRateLimitOnly(clientIp)
checkRateLimitOnly(st, ip, t) ==
    LET r == getRateLimitInfo(st, ip, t)
    IN  [store |-> r.store, allowed |-> r.info.remaining > 0, info |-> r.info,
         thrown |-> r.thrown]

\* A recordDownload that appends nothing.
PushDownloadDropped(st, ip, t) == st

\* A recordDownload that appends to the entry of every client.
PushDownloadToAll(st, ip, t) ==
    [c \in DOMAIN st |-> [st[c] EXCEPT !.downloads = Append(@, t)]]

\* A recordDownload that also moves the reset time of the window.
PushDownloadExtending(st, ip, t) ==
    [st EXCEPT ![ip].downloads = Append(@, t),
               ![ip].resetTime = t + RATE_LIMIT_WINDOW]

\* store.downloads.push(new Date().toISOString())
PushDownload(st, ip, t) == [st EXCEPT ![ip].downloads = Append(@, t)]

\* recordDownload(clientIp); for an inherited key store.downloads.push throws.
recordDownload(st, ip, t) ==
    IF ip \in InheritedKeys
    THEN [store |-> st, info |-> NoInfo, thrown |-> TRUE]
    ELSE IF ~st[ip].exists
    THEN getRateLimitInfo(st, ip, t)
    ELSE getRateLimitInfo(PushDownload(st, ip, t), ip, t)

\* A sweep that deletes nothing.
cleanupRateLimitStoreNever(st, t) == st

\* A sweep that deletes every entry.
cleanupRateLimitStoreAll(st, t) == [ip \in Clients |-> NoEntry]

\* cleanupRateLimitStore()
cleanupRateLimitStore(st, t) ==
    [ip \in Clients |->
        IF st[ip].exists /\ st[ip].resetTime < t THEN NoEntry ELSE st[ip]]

---------------------------------------------------------------------------
(* The request handler *)

\* What a request is, as far as the handler looks at it.  extract is the
\* outcome of extractBehanceImages(url) should the handler call it.
Methods == {"POST", "GET", "OPTIONS"}
Urls == {"none", "other", "gallery"}         \* absent, not a gallery URL, gallery URL
Actions == {"search", "download", "other"}
Extractions == {"images", "empty", "throws"}

Req(method, body, url, action, extract) ==
    [method |-> method, body |-> body, url |-> url, action |-> action,
     extract |-> extract]

\* res.status(status).json({..., rateLimit})
Json(st, status, message, info) ==
    [store |-> st, status |-> status, message |-> message, rateLimit |-> info]

\* The last statement of handler: 405 with a fresh snapshot (lines 202-205).
MethodNotAllowed(st, ip, t) ==
    LET r == getRateLimitInfo(st, ip, t)
    IN  Json(r.store, 405, "Method not allowed", r.info)

\* A search branch that records a download for every search.
handleSearchCounted(st, ip, req, t) ==
    LET u == recordDownload(st, ip, t)
    IN  Json(u.store, 200, "Success", u.info)

\* handler, the search branch (lines 129-171)
handleSearch(st, ip, req, t) ==
    LET c == checkRateLimitOnly(st, ip, t)
    IN  IF ~c.allowed
        THEN Json(c.store, 429, "Rate limit exceeded", c.info)
        ELSE IF req.extract = "images"
        THEN Json(c.store, 200, "Success", c.info)
        ELSE IF req.extract = "throws"
        THEN Json(c.store, 200, "Please use client-side download", c.info)
        ELSE MethodNotAllowed(c.store, ip, t)

\* A download branch that records without asking whether quota is left.
handleDownloadActionUnchecked(st, ip, t) ==
    LET c == checkRateLimitOnly(st, ip, t)
        u == recordDownload(c.store, ip, t)
    IN  Json(u.store, 200, "Download recorded", u.info)

\* handler, the download branch (lines 174-189)
handleDownloadAction(st, ip, t) ==
    LET c == checkRateLimitOnly(st, ip, t)
    IN  IF ~c.allowed
        THEN Json(c.store, 429, "Rate limit exceeded", c.info)
        ELSE LET u == recordDownload(c.store, ip, t)
             IN  Json(u.store, 200, "Download recorded", u.info)

\* handler(req, res) (lines 91-206).  For an inherited key every path but
\* that of OPTIONS calls getRateLimitInfo, which throws, in the try block and
\* again in the catch block (line 197) or outside of both (line 204): the
\* handler's promise rejects and the framework answers 500 without a snapshot.
handler(st, ip, req, t) ==
    IF req.method = "OPTIONS"
    THEN Json(st, 200, "", NoInfo)
    ELSE IF ip \in InheritedKeys
    THEN Json(st, 500, "Internal Server Error", NoInfo)
    ELSE IF req.method # "POST"
    THEN MethodNotAllowed(st, ip, t)
    ELSE IF req.body = "missing"
    THEN \* destructuring req.body throws: the catch block answers 500
         LET r == getRateLimitInfo(st, ip, t)
         IN  Json(r.store, 500, "Internal server error", r.info)
    ELSE IF req.url = "none"
    THEN LET r == getRateLimitInfo(st, ip, t)
         IN  Json(r.store, 400, "URL is required", r.info)
    ELSE IF req.url # "gallery"
    THEN LET r == getRateLimitInfo(st, ip, t)
         IN  Json(r.store, 400, "Invalid Behance gallery URL", r.info)
    ELSE IF req.action = "search"
    THEN handleSearch(st, ip, req, t)
    ELSE IF req.action = "download"
    THEN handleDownloadAction(st, ip, t)
    ELSE MethodNotAllowed(st, ip, t)

---------------------------------------------------------------------------
(* The page before anything is done on it *)

\* downloadProgress is completed / images.length * 100, kept as the fraction n / d.
Zero == [n |-> 0, d |-> 1]

\* The useState initial values of Home (lines 237-250); rateLimitInfo = NoInfo is null.
IdlePage ==
    [rateLimitInfo |-> NoInfo, previewImages |-> 0, isLoading |-> FALSE,
     isDownloading |-> FALSE, downloadMode |-> "individual",
     downloadProgress |-> Zero, downloadedImages |-> <<>>,
     failedDownloads |-> <<>>, showRateLimitModal |-> FALSE]

\* last: how downloadWithRetry just ended for an image (until the run's next step).
\* request: the selection whose confirmation was refused (while the modal shows).
\* finalizing: the earlier runs that still await zip.generateAsync (line 350)
\* while a later run has taken their place.
NoOutcome == [id |-> 0, status |-> "none", attempts |-> 0, tries |-> <<>>, recorded |-> 0]
NoRequest == [n |-> 0, remaining |-> 0]

IdleRun ==
    [pc |-> "idle", mode |-> "individual", images |-> <<>>, i |-> 0, attempt |-> 0,
     failed |-> <<>>, completed |-> 0, tries |-> <<>>, recorded |-> 0,
     recordedFor |-> {}, last |-> NoOutcome, request |-> NoRequest, retry |-> FALSE,
     finalizing |-> 0]

---------------------------------------------------------------------------
(* State and steps of the server *)

\* extractBehanceImages has not been called.
NoExtraction ==
    [pc |-> "idle", browser |-> "none", opened |-> 0, closed |-> 0,
     raw |-> <<>>, images |-> <<>>, seen |-> {}, scans |-> 0, scrolls |-> 0,
     thrown |-> "", outcome |-> "none"]

\* No function is applied.
NoCall == [fn |-> "none", arg |-> <<>>, out |-> <<>>]

\* No search of the client is awaiting its extraction.
NoPending == [active |-> FALSE, extract |-> "images", info |-> NoInfo]

NoRes ==
    [op |-> "none", client |-> "", action |-> "", status |-> 0, message |-> "",
     allowed |-> FALSE, rateLimit |-> NoInfo]

ServerInit ==
    /\ now = 0
    /\ rateLimitStore = [ip \in Clients |-> NoEntry]
    /\ res = NoRes
    /\ log = [ip \in Clients |-> <<>>]
    /\ pending = [ip \in Clients |-> NoPending]
    /\ extraction = NoExtraction
    /\ call = NoCall
    /\ page = IdlePage
    /\ run = IdleRun

\* The entry of ip is an open window at time t: it exists and its reset time
\* has not passed.
Active(st, ip, t) == st[ip].exists /\ ~(st[ip].resetTime < t)

\* log after an event is appended to ip's window at time t
Logged(ip, t) == [log EXCEPT ![ip] = Append(@, t)]

\* A request of client ip is handled.
Request(ip, req) ==
    LET r == handler(rateLimitStore, ip, req, now)
        recorded == r.message = "Download recorded"
    IN  /\ recorded => Len(log[ip]) < MaxLog
        /\ rateLimitStore' = r.store
        /\ res' = [op |-> "request", client |-> ip, action |-> req.action,
                   status |-> r.status, message |-> r.message,
                   allowed |-> r.status = 200, rateLimit |-> r.rateLimit]
        /\ log' = IF recorded THEN Logged(ip, now) ELSE log
        /\ UNCHANGED <<now, pending, extraction, call, pageVars>>

Search(ip) ==
    \E x \in Extractions : Request(ip, Req("POST", "json", "gallery", "search", x))

Download(ip) ==
    Request(ip, Req("POST", "json", "gallery", "download", "images"))

\* Every other request: another method, no body, no or a bad url, another action.
OtherRequest(ip) ==
    \E req \in { Req("OPTIONS", "json", "none", "other", "images"),
                 Req("GET", "json", "gallery", "other", "images"),
                 Req("POST", "missing", "none", "other", "images"),
                 Req("POST", "json", "none", "download", "images"),
                 Req("POST", "json", "other", "search", "images"),
                 Req("POST", "json", "gallery", "other", "images") } :
        Request(ip, req)

\* setInterval(cleanupRateLimitStore, RATE_LIMIT_WINDOW) fires.
Sweep ==
    /\ rateLimitStore' = cleanupRateLimitStore(rateLimitStore, now)
    /\ res' = NoRes
    /\ UNCHANGED <<now, log, pending, extraction, call, pageVars>>

\* The clock moves on to a later instant; the log forgets what is older than span.
AdvanceClock(span) ==
    \E k \in 0..MaxTick :
        /\ Instant(k) > now
        /\ now' = Instant(k)
        /\ log' = [ip \in Clients |->
                     SelectSeq(log[ip], LAMBDA ts : ts >= Instant(k) - span)]
        /\ res' = NoRes
        /\ UNCHANGED <<rateLimitStore, pending, extraction, call, pageVars>>

Advance == AdvanceClock(RATE_LIMIT_WINDOW)

\* The same, the log remembering one second more than the hour.
AdvanceTracker == AdvanceClock(LogSpan)

\* What res tells of a call of the tracker that threw.
Thrown(r) == IF r.thrown THEN "TypeError" ELSE ""

\* The tracker's functions called directly.
Peek(ip) ==
    LET r == getRateLimitInfo(rateLimitStore, ip, now)
    IN  /\ rateLimitStore' = r.store
        /\ res' = [NoRes EXCEPT !.op = "peek", !.client = ip, !.rateLimit = r.info,
                                !.message = Thrown(r)]
        /\ UNCHANGED <<now, log, pending, extraction, call, pageVars>>

TryConsume(ip) ==
    LET r == checkRateLimitOnly(rateLimitStore, ip, now)
    IN  /\ rateLimitStore' = r.store
        /\ res' = [NoRes EXCEPT !.op = "tryConsume", !.client = ip,
                                !.allowed = r.allowed, !.rateLimit = r.info,
                                !.message = Thrown(r)]
        /\ UNCHANGED <<now, log, pending, extraction, call, pageVars>>

Record(ip) ==
    LET r == recordDownload(rateLimitStore, ip, now)
        appended == ip \in Clients /\ Active(rateLimitStore, ip, now)
    IN  /\ appended => Len(log[ip]) < MaxLog
        /\ rateLimitStore' = r.store
        /\ res' = [NoRes EXCEPT !.op = "record", !.client = ip, !.rateLimit = r.info,
                                !.message = Thrown(r)]
        /\ log' = IF appended THEN Logged(ip, now) ELSE log
        /\ UNCHANGED <<now, pending, extraction, call, pageVars>>

\* The handler under any requests, sweeps and clock advances.
Next ==
    \/ \E ip \in Callers : Search(ip)
    \/ \E ip \in Callers : Download(ip)
    \/ \E ip \in Callers : OtherRequest(ip)
    \/ Sweep
    \/ Advance

Spec == ServerInit /\ [][Next]_vars

\* The tracker's three functions called in any order.
TrackerNext ==
    \/ \E ip \in Callers : Peek(ip)
    \/ \E ip \in Callers : TryConsume(ip)
    \/ \E ip \in Callers : Record(ip)
    \/ Sweep
    \/ AdvanceTracker

SpecTracker == ServerInit /\ [][TrackerNext]_vars

---------------------------------------------------------------------------
(* The handler with its requests interleaved.  A handler runs without       *)
(* interruption up to an await; its only await is that of                   *)
(* extractBehanceImages in the search branch (line 139).                    *)

\* What res holds after r was sent to ip in answer to action.
Sent(ip, action, r) ==
    [op |-> "request", client |-> ip, action |-> action, status |-> r.status,
     message |-> r.message, allowed |-> r.status = 200, rateLimit |-> r.rateLimit]

\* handler on a search for a gallery, up to the await (lines 129-139): 429
\* at once, or the extraction is started with info in hand.  One search per
\* client is followed at a time.
SearchBegin(ip) ==
    /\ ~pending[ip].active
    /\ \E x \in Extractions :
          LET c == checkRateLimitOnly(rateLimitStore, ip, now)
          IN  /\ rateLimitStore' = c.store
              /\ IF c.allowed
                 THEN /\ pending' = [pending EXCEPT ![ip] =
                                        [active |-> TRUE, extract |-> x, info |-> c.info]]
                      /\ res' = NoRes
                 ELSE /\ pending' = pending
                      /\ res' = Sent(ip, "search",
                                     Json(c.store, 429, "Rate limit exceeded", c.info))
    /\ UNCHANGED <<now, log, extraction, call, pageVars>>

\* extractBehanceImages has settled and the handler answers (lines 139-171,
\* 202-205).
SearchEnd(ip) ==
    /\ pending[ip].active
    /\ LET p == pending[ip]
           r == IF p.extract = "images"
                THEN Json(rateLimitStore, 200, "Success", p.info)
                ELSE IF p.extract = "throws"
                THEN Json(rateLimitStore, 200, "Please use client-side download", p.info)
                ELSE MethodNotAllowed(rateLimitStore, ip, now)
       IN  /\ rateLimitStore' = r.store
           /\ res' = Sent(ip, "search", r)
    /\ pending' = [pending EXCEPT ![ip] = NoPending]
    /\ UNCHANGED <<now, log, extraction, call, pageVars>>

\* Both clients have recorded InitUsed downloads in the hour that begins.
ServerBusyInit ==
    /\ now = 0
    /\ rateLimitStore =
          [ip \in Clients |->
              [exists |-> TRUE, downloads |-> [k \in 1..InitUsed |-> 0],
               resetTime |-> RATE_LIMIT_WINDOW]]
    /\ res = NoRes
    /\ log = [ip \in Clients |-> [k \in 1..InitUsed |-> 0]]
    /\ pending = [ip \in Clients |-> NoPending]
    /\ extraction = NoExtraction
    /\ call = NoCall
    /\ page = IdlePage
    /\ run = IdleRun

\* The clock moves on, no further than Instant(MaxServerTick).
AdvanceServer ==
    /\ \E k \in 0..MaxServerTick : Instant(k) > now
    /\ Advance
    /\ now' <= Instant(MaxServerTick)

\* The searches and the other requests of one client, the downloads of both.
ServerNext ==
    \/ \E ip \in Callers : SearchBegin(ip)
    \/ \E ip \in Callers : SearchEnd(ip)
    \/ \E ip \in Clients : Download(ip)
    \/ \E ip \in Callers : OtherRequest(ip)
    \/ Sweep
    \/ AdvanceServer

SpecServer == ServerBusyInit /\ [][ServerNext]_vars

\* The tracker's functions and the download request under every key a
\* request may come with.
KeysNext ==
    \/ \E ip \in Keys : Peek(ip)
    \/ \E ip \in Keys : TryConsume(ip)
    \/ \E ip \in Keys : Record(ip)
    \/ \E ip \in Keys : Download(ip)
    \/ Sweep
    \/ AdvanceServer

SpecKeys == ServerInit /\ [][KeysNext]_vars

---------------------------------------------------------------------------
(* Strings.  A string is the sequence of its pieces, each piece a run of    *)
(* characters; the pieces are cut so that every literal and every pattern   *)
(* of the program matches whole pieces only.                                *)

\* s.includes(p)
Includes(s, p) ==
    \E k \in 0..(Len(s) - Len(p)) : SubSeq(s, k + 1, k + Len(p)) = p

\* s.indexOf(p) + 1: where p first begins in s, 0 when it is not in s
IndexOf(s, p) ==
    IF Includes(s, p)
    THEN CHOOSE k \in 1..(Len(s) - Len(p) + 1) :
            /\ SubSeq(s, k, k + Len(p) - 1) = p
            /\ \A j \in 1..(k - 1) : SubSeq(s, j, j + Len(p) - 1) # p
    ELSE 0

\* The pieces that \d+ matches the whole of.
Digits == {"123", "45"}

\* A function returns v, or throws new Error(message).
Return(v) == [thrown |-> "", value |-> v]
Throw(message) == [thrown |-> message, value |-> <<>>]

---------------------------------------------------------------------------
(* validateAndCleanUrl and extractProjectId                                 *)
(* (src/components/RateLimitModal.tsx, lines 178-212)                       *)

\* url.split('?')[0]
BeforeQuery(url) ==
    IF Includes(url, <<"?">>) THEN SubSeq(url, 1, IndexOf(url, <<"?">>) - 1) ELSE url

\* A replace that removes one trailing slash only.
StripOneTrailingSlash(s) ==
    IF s # <<>> /\ s[Len(s)] = "/" THEN SubSeq(s, 1, Len(s) - 1) ELSE s

\* .replace(/\/+$/, '')
RECURSIVE StripTrailingSlashes(_)
StripTrailingSlashes(s) ==
    IF s # <<>> /\ s[Len(s)] = "/"
    THEN StripTrailingSlashes(SubSeq(s, 1, Len(s) - 1))
    ELSE s

\* A test that takes behance.net/gallery anywhere for a gallery URL.
IsShortGalleryUrlLoose(s) == Includes(s, <<"behance.net", "/", "gallery">>)

\* cleanUrl.match(/behance\.net\/gallery\/\d+$/)
IsShortGalleryUrl(s) ==
    /\ Len(s) >= 5
    /\ \E k \in 5..Len(s) :
          /\ SubSeq(s, k - 4, k - 1) = <<"behance.net", "/", "gallery", "/">>
          /\ \A j \in k..Len(s) : s[j] \in Digits

SearchUrlError == "Please provide a direct Behance project URL instead of a search URL"
InvalidUrlError == "Invalid Behance URL"
NoProjectIdError == "Could not extract project ID from URL"

\* validateAndCleanUrl(url) (lines 178-202)
validateAndCleanUrl(url) ==
    LET cleanUrl == StripTrailingSlashes(BeforeQuery(url))
    IN  IF Includes(cleanUrl, <<"/", "search", "/", "projects">>)
        THEN Throw(SearchUrlError)
        ELSE IF IsShortGalleryUrl(cleanUrl)
        THEN Return(cleanUrl)
        ELSE IF Includes(cleanUrl, <<"behance.net", "/", "gallery", "/">>)
        THEN Return(cleanUrl)
        ELSE Throw(InvalidUrlError)

\* The digits that (\d+) takes from position k of s on.
RECURSIVE DigitRun(_, _)
DigitRun(s, k) ==
    IF k <= Len(s) /\ s[k] \in Digits THEN <<s[k]>> \o DigitRun(s, k + 1) ELSE <<>>

\* extractProjectId(url) (lines 205-212): cleanUrl.match(/gallery\/(\d+)/)[1]
extractProjectId(url) ==
    LET c == validateAndCleanUrl(url)
        s == c.value
        hits == {k \in 1..(Len(s) - 2) :
                    s[k] = "gallery" /\ s[k + 1] = "/" /\ s[k + 2] \in Digits}
    IN  IF c.thrown # ""
        THEN c
        ELSE IF hits = {}
        THEN Throw(NoProjectIdError)
        ELSE Return(DigitRun(s, (CHOOSE k \in hits : \A j \in hits : k <= j) + 2))

\* The gallery URLs and other strings a search may be made with: a host, a
\* path, up to MaxSlashes trailing slashes and a query string.
Hosts ==
    { <<"https:", "/", "/", "www.", "behance.net">>,
      <<"behance.net">>,
      <<"https:", "/", "/", "example.com">> }

Paths ==
    { <<>>,
      <<"/", "gallery">>,
      <<"/", "gallery", "/", "123">>,
      <<"/", "gallery", "/", "123", "/", "Name">>,
      <<"/", "gallery", "/", "Name">>,
      <<"/", "search", "/", "projects">>,
      <<"/", "search", "/", "projects", "/", "gallery", "/", "123">>,
      <<"/", "user", "/", "projects">> }

Queries ==
    { <<>>,
      <<"?", "q">>,
      <<"?", "from=", "behance.net", "/", "gallery", "/", "45", "/">> }

Slashes(n) == [k \in 1..n |-> "/"]

PageUrls ==
    {h \o p \o Slashes(n) \o q :
        h \in Hosts, p \in Paths, n \in 0..MaxSlashes, q \in Queries}

\* handler's two tests of url (download.ts, lines 114-126)
UrlKind(url) ==
    IF url = <<>> THEN "none"
    ELSE IF ~Includes(url, <<"behance.net", "/", "gallery">>) THEN "other"
    ELSE "gallery"

---------------------------------------------------------------------------
(* extractBehanceImages (src/components/RateLimitModal.tsx, lines 261-367) *)
(* and the functions it names its descriptors with (lines 215-258).         *)
(* browser.close() is taken to close the browser.                           *)

\* s with its first match of one of the patterns pats replaced by rep: what
\* String.replace does with a regular expression without the g flag.
ReplaceFirst(s, pats, rep) ==
    LET At(k, p) == k + Len(p) - 1 <= Len(s) /\ SubSeq(s, k, k + Len(p) - 1) = p
        hits == {k \in 1..Len(s) : \E p \in pats : At(k, p)}
    IN  IF hits = {}
        THEN s
        ELSE LET k == CHOOSE h \in hits : \A j \in hits : h <= j
                 p == CHOOSE q \in pats : At(k, q)
             IN  SubSeq(s, 1, k - 1) \o rep \o SubSeq(s, k + Len(p), Len(s))

\* .replace(/\/fs\/.*?\//, '/original/'): the first /fs/ and what follows it
\* up to the next slash
ReplaceFs(s) ==
    LET k == IndexOf(s, <<"/", "fs", "/">>)
        ends == {m \in (k + 3)..Len(s) : s[m] = "/"}
    IN  IF k = 0 \/ ends = {}
        THEN s
        ELSE LET m == CHOOSE e \in ends : \A j \in ends : e <= j
             IN  SubSeq(s, 1, k - 1) \o <<"/", "original", "/">>
                    \o SubSeq(s, m + 1, Len(s))

\* .replace(/\/200H?\//, '/2000/') for the size z
ReplaceSize(s, z) ==
    ReplaceFirst(s, {<<"/", z, "/">>, <<"/", z, "H", "/">>}, <<"/", "2000", "/">>)

\* .replace(/_200\./g, '_2000.') for the size z
ReplaceSuffix(s, z) ==
    [k \in 1..Len(s) |->
        IF s[k] = z /\ k > 1 /\ k < Len(s) /\ s[k - 1] = "_" /\ s[k + 1] = "."
        THEN "2000" ELSE s[k]]

\* The sizes getHighestQualityUrl replaces, in the order of its replaces.
LowSizes == <<"200", "400", "600", "800", "1400">>

RECURSIVE ReplaceSizes(_, _)
ReplaceSizes(s, k) ==
    IF k > Len(LowSizes) THEN s ELSE ReplaceSizes(ReplaceSize(s, LowSizes[k]), k + 1)

RECURSIVE ReplaceSuffixes(_, _)
ReplaceSuffixes(s, k) ==
    IF k > Len(LowSizes) THEN s ELSE ReplaceSuffixes(ReplaceSuffix(s, LowSizes[k]), k + 1)

\* getHighestQualityUrl(url) (lines 225-244)
getHighestQualityUrl(url) ==
    IF url = <<>>
    THEN <<>>
    ELSE LET cleanUrl == IF Len(url) >= 2 /\ SubSeq(url, 1, 2) = <<"/", "/">>
                         THEN <<"https:", "/", "/">> \o SubSeq(url, 3, Len(url))
                         ELSE url
         IN  ReplaceSuffixes(ReplaceSizes(ReplaceFs(cleanUrl), 1), 1)

\* The extensions getExtensionFromUrl looks for, in its order.
Extensions == <<"jpg", "jpeg", "png", "gif", "webp">>

\* getExtensionFromUrl(url) (lines 247-258): the first of the extensions that
\* the URL includes, or .jpg
getExtensionFromUrl(url) ==
    LET found == {k \in 1..Len(Extensions) : Includes(url, <<".", Extensions[k]>>)}
    IN  IF found = {}
        THEN <<".", "jpg">>
        ELSE <<".", Extensions[CHOOSE k \in found : \A j \in found : k <= j]>>

\* An image URL of the CDN: the image in one of its renditions.  Image a is a
\* .png, image b has no extension the program knows.
CdnUrl(img, size) ==
    <<"/", "/", "cdn", "/", size, "/", img>>
        \o (IF img = "a" THEN <<".", "png">> ELSE <<>>)

Renditions == {"400", "1400", "original"}

RawUrls == {CdnUrl(img, size) : img \in {"a", "b"}, size \in Renditions}

\* What a scan of the page may return: up to MaxRaw URLs, repeats included.
RawLists == UNION {[1..n -> RawUrls] : n \in 0..MaxRaw}

\* A loop over the URLs that keeps every one of them.
ProcessUrlsKeepAll(urls, images, seen) ==
    [images |-> images \o
                  [k \in 1..Len(urls) |->
                      [url |-> getHighestQualityUrl(urls[k]),
                       index |-> Len(images) + k,
                       ext |-> getExtensionFromUrl(getHighestQualityUrl(urls[k]))]],
     seen |-> seen \cup {getHighestQualityUrl(urls[k]) : k \in 1..Len(urls)}]

\* for (const imageUrl of imageUrls) { ... } (lines 309-318, 336-345): the
\* descriptors and the seen set it leaves.  A filename is the sanitized title,
\* the index images.length + 1 and the extension; the title is the same for
\* all, so the model keeps index and ext.
RECURSIVE ProcessUrls(_, _, _)
ProcessUrls(urls, images, seen) ==
    IF urls = <<>>
    THEN [images |-> images, seen |-> seen]
    ELSE LET highQualityUrl == getHighestQualityUrl(Head(urls))
         IN  IF highQualityUrl \notin seen
             THEN ProcessUrls(Tail(urls),
                              Append(images,
                                     [url |-> highQualityUrl,
                                      index |-> Len(images) + 1,
                                      ext |-> getExtensionFromUrl(highQualityUrl)]),
                              seen \cup {highQualityUrl})
             ELSE ProcessUrls(Tail(urls), images, seen)

\* An await of the extraction rejects, or a statement throws: control goes to
\* the catch block.
Throws(why) == [extraction EXCEPT !.pc = "throw", !.thrown = why]

ExtractionOnly == UNCHANGED <<now, rateLimitStore, res, log, pending, pageVars, call>>

\* extractBehanceImages(url) is called; extractProjectId(url) (line 264)
ExtractCalled ==
    /\ extraction.pc = "idle"
    /\ \E ok \in BOOLEAN :
          extraction' = IF ok THEN [extraction EXCEPT !.pc = "launch"]
                        ELSE Throws("InvalidUrl")
    /\ ExtractionOnly

\* browser = await puppeteer.launch(..) (lines 268-278)
Launch ==
    /\ extraction.pc = "launch"
    /\ \E ok \in BOOLEAN :
          extraction' = IF ok
                        THEN [extraction EXCEPT !.pc = "load", !.browser = "open",
                                                !.opened = @ + 1]
                        ELSE Throws("Launch")
    /\ ExtractionOnly

\* newPage, setViewport, setUserAgent, goto with its timeout, the title
\* (lines 280-291)
Load ==
    /\ extraction.pc = "load"
    /\ \E ok \in BOOLEAN :
          extraction' = IF ok THEN [extraction EXCEPT !.pc = "scan"]
                        ELSE Throws("UpstreamLoad")
    /\ ExtractionOnly

\* A test that always asks for the second scan.
ScanAgainAlways(images) == TRUE

\* if (images.length === 0) (line 321)
ScanAgain(images) == Len(images) = 0

\* The scan of the page and the loop over what it found (lines 293-321)
PrimaryScan ==
    /\ extraction.pc = "scan"
    /\ \E ok \in BOOLEAN, raw \in RawLists :
          extraction' =
             IF ok
             THEN LET p == ProcessUrls(raw, <<>>, {})
                  IN  [extraction EXCEPT
                          !.raw = raw, !.images = p.images, !.seen = p.seen,
                          !.scans = @ + 1,
                          !.pc = IF ScanAgain(p.images) THEN "scroll" ELSE "return"]
             ELSE Throws("Evaluate")
    /\ ExtractionOnly

\* if (images.length === 0): scrollTo and the pause of 2000 ms (lines 321-323)
Scroll ==
    /\ extraction.pc = "scroll"
    /\ \E ok \in BOOLEAN :
          extraction' = IF ok THEN [extraction EXCEPT !.pc = "rescan", !.scrolls = @ + 1]
                        ELSE Throws("Evaluate")
    /\ ExtractionOnly

\* The second scan and its loop, then the test for no image (lines 325-350)
SecondaryScan ==
    /\ extraction.pc = "rescan"
    /\ \E ok \in BOOLEAN, raw \in RawLists :
          extraction' =
             IF ok
             THEN LET p == ProcessUrls(raw, extraction.images, extraction.seen)
                      e == [extraction EXCEPT !.raw = raw, !.images = p.images,
                                              !.seen = p.seen, !.scans = @ + 1]
                  IN  IF Len(p.images) = 0
                      THEN [e EXCEPT !.pc = "throw", !.thrown = "NoImagesFound"]
                      ELSE [e EXCEPT !.pc = "return"]
             ELSE Throws("Evaluate")
    /\ ExtractionOnly

\* A finally block that closes nothing.
CloseBrowserNever(e) == e

\* finally { if (browser) await browser.close() } (lines 362-366)
CloseBrowser(e) ==
    IF e.browser = "open"
    THEN [e EXCEPT !.browser = "closed", !.closed = @ + 1]
    ELSE e

\* return images, or the catch block (lines 352-361), then the finally: the
\* call ends with the images or with what was thrown.
ExtractEnds ==
    /\ extraction.pc \in {"return", "throw"}
    /\ extraction' =
          [CloseBrowser(extraction) EXCEPT
              !.pc = "done",
              !.outcome = IF extraction.pc = "return" THEN "images"
                          ELSE extraction.thrown]
    /\ ExtractionOnly

ExtractNext ==
    \/ ExtractCalled
    \/ Launch
    \/ Load
    \/ PrimaryScan
    \/ Scroll
    \/ SecondaryScan
    \/ ExtractEnds

SpecExtract == ServerInit /\ [][ExtractNext]_vars

---------------------------------------------------------------------------
(* The page: search, confirmation of a selection, and the download run *)

PageClient == "a"     \* the address the page's requests come from

Range(f) == {f[k] : k \in DOMAIN f}

\* A recordDownload of the page that swallows the rejection.
RecordAcceptedAlways(status) == TRUE

\* axios resolves for a 2xx status and rejects for every other (lines 226-233).
RecordAccepted(status) == status >= 200 /\ status < 300

\* A retry test that is off by one.
MayRetryOnceMore(attempt) == attempt <= MAX_RETRIES

\* attempt < MAX_RETRIES (line 305)
MayRetry(attempt) == attempt < MAX_RETRIES

\* A quota test that refuses only a client with nothing left.
QuotaShortAtZero(info, n) == info # NoInfo /\ info.remaining < 1

\* rateLimitInfo && rateLimitInfo.remaining < selectedImages.length (line 444)
QuotaShort(info, n) == info # NoInfo /\ info.remaining < n

\* RateLimitModal is a Dialog: while it shows, a click anywhere else closes it,
\* so the page's other controls are used only once it is closed.
\* handleSubmit (lines 453-460); the submit button is disabled while isLoading.
HandleSubmit ==
    /\ ~page.isLoading
    /\ ~page.showRateLimitModal
    /\ page' = [page EXCEPT !.downloadProgress = Zero, !.downloadedImages = <<>>,
                            !.isLoading = TRUE]
    /\ UNCHANGED <<run, serverVars>>

\* downloadMutation's onSuccess / onError (lines 262-284).  The error axios
\* rejects with has no rateLimit property of its own, so onError keeps the
\* snapshot and the modal as they are.
SearchSettled(status, hasImages, info) ==
    IF RecordAccepted(status)
    THEN [page EXCEPT !.rateLimitInfo = IF info # NoInfo THEN info ELSE @,
                      !.previewImages = IF hasImages THEN MaxImages ELSE @,
                      !.isLoading = FALSE]
    ELSE [page EXCEPT !.downloadProgress = Zero, !.isLoading = FALSE]

\* downloadImages(images) (lines 402-413), up to the first fetch.  A run that
\* awaits its archive when this one starts goes on finalizing beside it.
downloadImages(images, retry) ==
    /\ page' = [page EXCEPT !.isDownloading = TRUE, !.downloadedImages = <<>>,
                            !.downloadProgress = Zero, !.failedDownloads = <<>>]
    /\ run' = [IdleRun EXCEPT !.pc = IF images = <<>> THEN "finally" ELSE "fetch",
                              !.mode = page.downloadMode,
                              !.images = images, !.i = 1, !.attempt = 1,
                              !.retry = retry,
                              !.finalizing = run.finalizing
                                               + (IF run.pc = "zip" THEN 1 ELSE 0)]

\* handleDownload(selectedImages) with the first n preview images selected
\* (lines 440-451); the confirm button is disabled while isDownloading, which
\* the finally of an earlier run may have reset while a later run awaits its
\* archive.  Two runs that are both in their loop are not followed.
handleDownload(n) ==
    /\ run.pc \in {"idle", "zip"}
    /\ run.pc = "zip" => run.finalizing < MaxOverlap
    /\ ~page.isDownloading
    /\ ~page.showRateLimitModal
    /\ n >= 1 /\ n <= page.previewImages
    /\ IF QuotaShort(page.rateLimitInfo, n)
       THEN /\ page' = [page EXCEPT !.showRateLimitModal = TRUE]
            /\ run' = [run EXCEPT !.request =
                          [n |-> n, remaining |-> page.rateLimitInfo.remaining]]
       ELSE downloadImages([k \in 1..n |-> k], FALSE)
    /\ UNCHANGED serverVars

\* retryFailedDownloads (lines 420-423).  Its button (lines 568-576) shows
\* while downloadProgress > 0 and failedDownloads is not empty and is never
\* disabled: it can be pressed between two runs and also while a run awaits
\* its archive, the failed list being set before zip.generateAsync (lines
\* 345-350).  In the loop of a run failedDownloads is empty.
retryFailedDownloads ==
    /\ run.pc \in {"idle", "zip"}
    /\ run.pc = "zip" => run.finalizing < MaxOverlap
    /\ ~page.showRateLimitModal
    /\ page.failedDownloads # <<>>
    /\ page.downloadProgress.n > 0
    /\ downloadImages(
          SelectSeq([k \in 1..page.previewImages |-> k],
                    LAMBDA id : id \in Range(page.failedDownloads)),
          TRUE)
    /\ UNCHANGED serverVars

\* onDownloadModeChange; the select is disabled while isDownloading.
SetDownloadMode ==
    /\ ~page.isDownloading
    /\ ~page.showRateLimitModal
    /\ page' = [page EXCEPT !.downloadMode =
                               IF @ = "zip" THEN "individual" ELSE "zip"]
    /\ UNCHANGED <<run, serverVars>>

\* onClose of RateLimitModal
CloseRateLimitModal ==
    /\ page.showRateLimitModal
    /\ page' = [page EXCEPT !.showRateLimitModal = FALSE]
    /\ run' = [run EXCEPT !.request = NoRequest]
    /\ UNCHANGED serverVars

\* A loop that starts on the next image while it leaves the index where it is.
NextImageInPlace(rn) ==
    [rn EXCEPT !.pc = "fetch", !.attempt = 1, !.tries = <<>>, !.recorded = 0]

\* The loop goes on to the next image.
NextImage(rn) ==
    [rn EXCEPT !.pc = "fetch", !.i = @ + 1, !.attempt = 1, !.tries = <<>>,
               !.recorded = 0]

\* The run is over: its locals are gone.
EndRun == run' = [IdleRun EXCEPT !.finalizing = run.finalizing]

\* if (failed.length > 0) setFailedDownloads(failed) (lines 345-347, 396-398)
SetFailed(pg, failed) ==
    IF failed # <<>> THEN [pg EXCEPT !.failedDownloads = failed] ELSE pg

\* A loop body that counts an image as completed only when it has a blob.
AfterImageCountingBlobs(pg, rn, blob, tries) ==
    LET id == rn.images[rn.i]
        completed == rn.completed + (IF blob THEN 1 ELSE 0)
        failed == IF blob THEN rn.failed ELSE Append(rn.failed, id)
        pg1 == [pg EXCEPT !.downloadedImages = IF blob THEN Append(@, id) ELSE @,
                          !.downloadProgress = [n |-> completed, d |-> Len(rn.images)]]
        rn1 == [rn EXCEPT !.completed = completed, !.failed = failed, !.tries = <<>>,
                          !.last = [id |-> id,
                                    status |-> IF blob THEN "Success" ELSE "Failed",
                                    attempts |-> rn.attempt, tries |-> tries,
                                    recorded |-> rn.recorded]]
    IN  IF rn.mode = "individual"
        THEN [page |-> pg1, run |-> [rn1 EXCEPT !.pc = "pace"]]
        ELSE IF rn.i < Len(rn.images)
        THEN [page |-> pg1, run |-> NextImage(rn1)]
        ELSE [page |-> SetFailed(pg1, failed), run |-> [rn1 EXCEPT !.pc = "zip"]]

\* The body of the for loop once downloadWithRetry has returned blob (TRUE) or
\* null (FALSE): lines 323-343 and 366-392.  tries is what the attempts of
\* this image came to.
AfterImage(pg, rn, blob, tries) ==
    LET id == rn.images[rn.i]
        completed == rn.completed + 1
        failed == IF blob THEN rn.failed ELSE Append(rn.failed, id)
        pg1 == [pg EXCEPT !.downloadedImages = IF blob THEN Append(@, id) ELSE @,
                          !.downloadProgress = [n |-> completed, d |-> Len(rn.images)]]
        rn1 == [rn EXCEPT !.completed = completed, !.failed = failed, !.tries = <<>>,
                          !.last = [id |-> id,
                                    status |-> IF blob THEN "Success" ELSE "Failed",
                                    attempts |-> rn.attempt, tries |-> tries,
                                    recorded |-> rn.recorded]]
    IN  IF rn.mode = "individual"
        THEN [page |-> pg1, run |-> [rn1 EXCEPT !.pc = "pace"]]
        ELSE IF rn.i < Len(rn.images)
        THEN [page |-> pg1, run |-> NextImage(rn1)]
        ELSE [page |-> SetFailed(pg1, failed), run |-> [rn1 EXCEPT !.pc = "zip"]]

\* A catch block whose last failure ends the whole run.
CaughtFatal(pg, rn, why) ==
    LET tries == Append(rn.tries, why)
    IN  IF MayRetry(rn.attempt)
        THEN [page |-> pg, run |-> [rn EXCEPT !.pc = "fetch", !.attempt = @ + 1,
                                              !.tries = tries, !.last = NoOutcome]]
        ELSE [page |-> pg,
              run |-> [rn EXCEPT !.pc = "finally", !.tries = <<>>,
                                 !.failed = Append(@, rn.images[rn.i])]]

\* The catch block of downloadWithRetry (lines 302-311): another attempt after
\* RETRY_DELAY * attempt, or null.
Caught(pg, rn, why) ==
    LET tries == Append(rn.tries, why)
    IN  IF MayRetry(rn.attempt)
        THEN [page |-> pg, run |-> [rn EXCEPT !.pc = "fetch", !.attempt = @ + 1,
                                              !.tries = tries, !.last = NoOutcome]]
        ELSE AfterImage(pg, rn, FALSE, tries)

\* axios.get(image.url) settles (lines 290-295).
FetchSettled(ok) ==
    /\ run.pc = "fetch"
    /\ LET r == IF ok THEN [page |-> page,
                             run |-> [run EXCEPT !.pc = "record", !.last = NoOutcome]]
                      ELSE Caught(page, run, "fetchError")
       IN  page' = r.page /\ run' = r.run
    /\ UNCHANGED serverVars

\* await recordDownload() settles with the endpoint's answer (lines 298-301).
\* consumed: the endpoint has recorded a download for this request; the run
\* keeps count of it in recorded and recordedFor.
RecordSettled(status, info, consumed) ==
    LET rn == IF consumed
              THEN [run EXCEPT !.recorded = @ + 1,
                               !.recordedFor = @ \cup {run.images[run.i]}]
              ELSE run
    IN  IF RecordAccepted(status)
        THEN AfterImage([page EXCEPT !.rateLimitInfo = info], rn, TRUE,
                        Append(rn.tries, "ok"))
        ELSE Caught(page, rn, "recordError")

\* The 500 ms between two images of downloadIndividually are over (line 393).
Pace ==
    /\ run.pc = "pace"
    /\ IF run.i < Len(run.images)
       THEN page' = page /\ run' = NextImage(run)
       ELSE /\ page' = [SetFailed(page, run.failed) EXCEPT !.isDownloading = FALSE]
            /\ EndRun
    /\ UNCHANGED serverVars

\* zip.generateAsync settles and the archive is saved (lines 349-355); then, and
\* after a run over no image, the finally of downloadImages.
Finally ==
    /\ run.pc \in {"zip", "finally"}
    /\ page' = [page EXCEPT !.isDownloading = FALSE]
    /\ EndRun
    /\ UNCHANGED serverVars

\* zip.generateAsync of an earlier run settles beside the present run: the
\* archive is saved and the finally of that run's downloadImages sets
\* isDownloading to false (lines 349-355, 414-416).
Finalized ==
    /\ run.finalizing > 0
    /\ page' = [page EXCEPT !.isDownloading = FALSE]
    /\ run' = [run EXCEPT !.finalizing = @ - 1]
    /\ UNCHANGED serverVars

---------------------------------------------------------------------------
(* The page against this repository's handler *)

\* The page is opened by a client for whom InitUsed downloads were recorded in
\* the present hour (by requests that carried a gallery URL).
AppInit ==
    /\ now = 0
    /\ rateLimitStore =
          [ip \in Clients |->
              IF ip = PageClient
              THEN [exists |-> TRUE, downloads |-> [k \in 1..InitUsed |-> 0],
                    resetTime |-> RATE_LIMIT_WINDOW]
              ELSE NoEntry]
    /\ res = NoRes
    /\ log = [ip \in Clients |->
                 IF ip = PageClient THEN [k \in 1..InitUsed |-> 0] ELSE <<>>]
    /\ pending = [ip \in Clients |-> NoPending]
    /\ extraction = NoExtraction
    /\ call = NoCall
    /\ page = IdlePage
    /\ run = IdleRun

\* The handler has answered a request of the page with r.
ServerAnswers(r, action) ==
    /\ r.message = "Download recorded" => Len(log[PageClient]) < MaxLog
    /\ rateLimitStore' = r.store
    /\ res' = [op |-> "request", client |-> PageClient, action |-> action,
               status |-> r.status, message |-> r.message,
               allowed |-> r.status = 200, rateLimit |-> r.rateLimit]
    /\ log' = IF r.message = "Download recorded" THEN Logged(PageClient, now) ELSE log
    /\ UNCHANGED <<now, pending, extraction, call>>

\* The search request of the page (lines 254-259) is answered.
AppSearchSettled ==
    /\ page.isLoading
    /\ \E url \in {"other", "gallery"}, x \in Extractions :
          LET r == handler(rateLimitStore, PageClient,
                           Req("POST", "json", url, "search", x), now)
          IN  /\ page' = SearchSettled(r.status, r.message = "Success", r.rateLimit)
              /\ ServerAnswers(r, "search")
    /\ UNCHANGED run

\* The request recordDownload() posts: { action: 'download' } and no url (lines 226-228).
RecordRequest == Req("POST", "json", "none", "download", "images")

\* The record request of the page is answered.
AppRecordSettled ==
    /\ run.pc = "record"
    /\ LET r == handler(rateLimitStore, PageClient, RecordRequest, now)
           s == RecordSettled(r.status, r.rateLimit, r.message = "Download recorded")
       IN  /\ page' = s.page /\ run' = s.run
           /\ ServerAnswers(r, "download")

AppNext ==
    \/ HandleSubmit
    \/ AppSearchSettled
    \/ \E n \in 1..MaxImages : handleDownload(n)
    \/ retryFailedDownloads
    \/ SetDownloadMode
    \/ CloseRateLimitModal
    \/ \E ok \in BOOLEAN : FetchSettled(ok)
    \/ AppRecordSettled
    \/ Pace
    \/ Finally
    \/ Finalized
    \/ Download(PageClient)

SpecApp == AppInit /\ [][AppNext]_vars

---------------------------------------------------------------------------
(* The page against endpoints that may answer anything *)

Snapshot(used) ==
    [used |-> used, limit |-> HOURLY_LIMIT, remaining |-> Max(0, HOURLY_LIMIT - used),
     resetTime |-> RATE_LIMIT_WINDOW]

Statuses == {200, 400, 429}
Snapshots == {Snapshot(u) : u \in {HOURLY_LIMIT - MaxBatch, HOURLY_LIMIT}}

OrchSearchSettled ==
    /\ page.isLoading
    /\ \E status \in Statuses, hasImages \in BOOLEAN, info \in Snapshots :
          page' = SearchSettled(status, hasImages, info)
    /\ UNCHANGED <<run, serverVars>>

OrchRecordSettled ==
    /\ run.pc = "record"
    /\ \E status \in Statuses, info \in Snapshots :
          LET s == RecordSettled(status, info, status = 200)
          IN  page' = s.page /\ run' = s.run
    /\ UNCHANGED serverVars

OrchNext ==
    \/ HandleSubmit
    \/ OrchSearchSettled
    \/ \E n \in 1..MaxBatch : handleDownload(n)
    \/ retryFailedDownloads
    \/ SetDownloadMode
    \/ CloseRateLimitModal
    \/ \E ok \in BOOLEAN : FetchSettled(ok)
    \/ OrchRecordSettled
    \/ Pace
    \/ Finally
    \/ Finalized

SpecOrch == ServerInit /\ [][OrchNext]_vars

\* Every request and every timer of a run settles in the end.
RunStep ==
    \/ \E ok \in BOOLEAN : FetchSettled(ok)
    \/ OrchRecordSettled
    \/ Pace
    \/ Finally
    \/ Finalized

SpecOrchFair == SpecOrch /\ WF_vars(RunStep)

---------------------------------------------------------------------------
(* The names of what is saved: sanitizeFilename and the descriptor's        *)
(* filename (RateLimitModal.tsx, lines 215-222, 315), the filename          *)
(* corrected by the content type and the name of the archive                *)
(* (download.ts, lines 323-333, 349-352, 366-383).                          *)

\* .toLowerCase() of a piece
Lower(c) == IF c = "My" THEN "my" ELSE c

\* The pieces of a title that are a letter or a digit throughout; every
\* other piece is one character that is neither.
Words == {"My", "my", "project", "behance"}

\* .replace(/_+/g, '_')
RECURSIVE Collapse(_)
Collapse(s) ==
    IF Len(s) < 2 THEN s
    ELSE IF s[1] = "_" /\ s[2] = "_" THEN Collapse(Tail(s))
    ELSE <<s[1]>> \o Collapse(Tail(s))

\* .replace(/^_|_$/g, '')
Trim(s) ==
    LET a == IF s # <<>> /\ s[1] = "_" THEN Tail(s) ELSE s
    IN  IF a # <<>> /\ a[Len(a)] = "_" THEN SubSeq(a, 1, Len(a) - 1) ELSE a

\* sanitizeFilename(name) (lines 215-222), for names that come to fewer than
\* 50 characters
sanitizeFilename(name) ==
    LET lower == [k \in 1..Len(name) |-> Lower(name[k])]
        under == [k \in 1..Len(name) |-> IF name[k] \in Words THEN lower[k] ELSE "_"]
        out   == Trim(Collapse(under))
    IN  IF out = <<>> THEN <<"image">> ELSE out

\* `${sanitizeFilename(projectTitle)}_${images.length + 1}${extension}` (line 315)
Filename(title, index, ext) == sanitizeFilename(title) \o <<"_", ToString(index)>> \o ext

\* new Blob([response.data], { type: response.headers['content-type'] || 'image/jpeg' }).type
\* (download.ts, line 301)
BlobType(contentType) ==
    IF contentType = <<>> THEN <<"image", "/", "jpeg">> ELSE contentType

\* image.filename.replace(/\.[^/.]+$/, '')
Stem(filename) ==
    LET dots == {k \in 1..(Len(filename) - 1) :
                    /\ filename[k] = "."
                    /\ \A j \in (k + 1)..Len(filename) : filename[j] \notin {"/", "."}}
    IN  IF dots = {} THEN filename
        ELSE SubSeq(filename, 1, (CHOOSE k \in dots : TRUE) - 1)

\* A loop body that saves the file under the name of the descriptor.
individualFilenameAsGuessed(filename, contentType) == filename

\* downloadAsZip, lines 325-331
zipFilename(filename, contentType) ==
    LET type == BlobType(contentType)
        extension == IF Includes(type, <<"webp">>) THEN <<".", "webp">>
                     ELSE IF Includes(type, <<"png">>) THEN <<".", "png">>
                     ELSE <<".", "jpg">>
    IN  Stem(filename) \o extension

\* downloadIndividually, lines 368-374
individualFilename(filename, contentType) ==
    LET type == BlobType(contentType)
        extension == IF Includes(type, <<"webp">>) THEN <<".", "webp">>
                     ELSE IF Includes(type, <<"png">>) THEN <<".", "png">>
                     ELSE <<".", "jpg">>
    IN  Stem(filename) \o extension

\* images[0]?.filename.split('_')[0] || 'behance-gallery', then
\* `${projectName}-gallery.zip` (lines 351-352)
archiveName(images) ==
    LET first == IF images = <<>> THEN <<>> ELSE (IF Includes(images[1], <<"_">>)
                      THEN SubSeq(images[1], 1, IndexOf(images[1], <<"_">>) - 1)
                      ELSE images[1])
        projectName == IF first = <<>> THEN <<"behance-gallery">> ELSE first
    IN  projectName \o <<"-gallery.zip">>

\* The titles of a gallery: up to MaxTitle pieces, words and other characters.
Titles == UNION {[1..n -> {"My", "project", " ", "-"}] : n \in 0..MaxTitle}

\* The content types an image may come with; <<>> is none at all.
ContentTypes ==
    { <<>>,
      <<"image", "/", "jpeg">>, <<"image", "/", "png">>, <<"image", "/", "webp">>,
      <<"image", "/", "gif">>, <<"text", "/", "html">>,
      <<"image", "/", "x-", "png">>,
      <<"image", "/", "png", ";", "q=", "webp">> }

\* The filenames of the descriptors of a gallery.
Filenames ==
    {Filename(t, k, e) :
        t \in {<<"My", " ", "project">>, <<"-">>}, k \in 1..2,
        e \in {<<".", "jpg">>, <<".", "gif">>}}

---------------------------------------------------------------------------
(* The functions that keep no state, each applied to any of its arguments *)

\* Image URLs with low-resolution markers: up to MaxSegments path segments
\* and a file name.
Segments ==
    { <<"/", "200">>, <<"/", "400">>, <<"/", "400", "H">>, <<"/", "1400">>,
      <<"/", "fs", "/", "x">>, <<"/", "disp">> }

Files ==
    { <<"/", "img", ".", "jpg">>,
      <<"/", "img", "_", "400", ".", "jpg">>,
      <<"/", "img", "_", "1400", ".", "png">> }

RECURSIVE Flatten(_)
Flatten(l) == IF l = <<>> THEN <<>> ELSE Head(l) \o Flatten(Tail(l))

ImageUrls ==
    {<<"/", "/", "cdn">> \o Flatten(l) \o f :
        l \in UNION {[1..n -> Segments] : n \in 0..MaxSegments}, f \in Files}

Arg(kind, s, t) == [kind |-> kind, s |-> s, t |-> t]

Args ==
    {Arg("url", u, <<>>) : u \in PageUrls}
       \cup {Arg("image", u, <<>>) : u \in ImageUrls}
       \cup {Arg("file", f, c) : f \in Filenames, c \in ContentTypes}
       \cup {Arg("title", t, <<>>) : t \in Titles}

FnInit ==
    /\ now = 0
    /\ rateLimitStore = [ip \in Clients |-> NoEntry]
    /\ res = NoRes
    /\ log = [ip \in Clients |-> <<>>]
    /\ pending = [ip \in Clients |-> NoPending]
    /\ extraction = NoExtraction
    /\ page = IdlePage
    /\ run = IdleRun
    /\ call \in {[fn |-> "none", arg |-> a, out |-> Return(<<>>)] : a \in Args}

\* fn is applied to the argument, which is of the given kind, and returns or
\* throws out.
Apply(fn, kind, out) ==
    /\ call.fn = "none"
    /\ call.arg.kind = kind
    /\ call' = [call EXCEPT !.fn = fn, !.out = out]
    /\ UNCHANGED <<now, rateLimitStore, res, log, pending, extraction, pageVars>>

ApplyValidateAndCleanUrl ==
    Apply("validateAndCleanUrl", "url", validateAndCleanUrl(call.arg.s))

ApplyExtractProjectId ==
    Apply("extractProjectId", "url", extractProjectId(call.arg.s))

ApplyGetHighestQualityUrl ==
    Apply("getHighestQualityUrl", "image", Return(getHighestQualityUrl(call.arg.s)))

ApplyZipFilename ==
    Apply("zipFilename", "file", Return(zipFilename(call.arg.s, call.arg.t)))

ApplyIndividualFilename ==
    Apply("individualFilename", "file",
          Return(individualFilename(call.arg.s, call.arg.t)))

\* The archive of a run over the first two descriptors of the gallery with
\* the title.
ApplyArchiveName ==
    Apply("archiveName", "title",
          Return(archiveName([k \in 1..2 |-> Filename(call.arg.s, k, <<".", "jpg">>)])))

\* handler on a search for the URL (download.ts, lines 111-171):
\* extractBehanceImages begins with extractProjectId(url) (line 264) and
\* throws what that throws.
SearchUrl(ip) ==
    /\ call.fn = "none"
    /\ call.arg.kind = "url"
    /\ \E x \in Extractions :
          LET id == extractProjectId(call.arg.s)
              req == Req("POST", "json", UrlKind(call.arg.s), "search",
                         IF id.thrown # "" THEN "throws" ELSE x)
              r == handler(rateLimitStore, ip, req, now)
          IN  /\ rateLimitStore' = r.store
              /\ res' = Sent(ip, "search", r)
              /\ call' = [call EXCEPT !.fn = "search", !.out = id]
    /\ UNCHANGED <<now, log, pending, extraction, pageVars>>

FnNext ==
    \/ ApplyValidateAndCleanUrl
    \/ ApplyExtractProjectId
    \/ ApplyGetHighestQualityUrl
    \/ ApplyZipFilename
    \/ ApplyIndividualFilename
    \/ ApplyArchiveName
    \/ \E ip \in Callers : SearchUrl(ip)

SpecFn == FnInit /\ [][FnNext]_vars

---------------------------------------------------------------------------
(* What the claims speak of *)

\* The snapshot a peek of ip would return in store st at time t.
PeekInfo(st, ip, t) == getRateLimitInfo(st, ip, t).info

\* The number of events appended for ip at a time in the interval (lo, hi].
LoggedIn(ip, lo, hi) ==
    Cardinality({i \in DOMAIN log[ip] : log[ip][i] > lo /\ log[ip][i] <= hi})

\* The number of events appended to ip's present window since it was opened.
RecordedInWindow(ip) ==
    Cardinality({i \in DOMAIN log[ip] :
                    log[ip][i] >= rateLimitStore[ip].resetTime - RATE_LIMIT_WINDOW})

\* C1: for every client and every interval of one hour, at most HOURLY_LIMIT
\* download actions are accepted with a timestamp in the interval.  Every
\* accepted download is logged at the time it is accepted and the clock only
\* moves forward, so it is enough to look, in every state, at the hour that
\* ends now: (now - RATE_LIMIT_WINDOW, now].
C1_AtMostLimitPerHour ==
    \A ip \in Clients : LoggedIn(ip, now - RATE_LIMIT_WINDOW, now) <= HOURLY_LIMIT

\* C2: after HOURLY_LIMIT record calls within one window, and while that
\* window's reset time has not passed, peek reports remaining = 0 and
\* tryConsume reports allowed = FALSE; once the reset time has passed, the next
\* peek reports used = 0.
C2_ExhaustedThenReset ==
    \A ip \in Clients :
        /\ (Active(rateLimitStore, ip, now) /\ RecordedInWindow(ip) >= HOURLY_LIMIT)
              => /\ PeekInfo(rateLimitStore, ip, now).remaining = 0
                 /\ ~checkRateLimitOnly(rateLimitStore, ip, now).allowed
        /\ (rateLimitStore[ip].exists /\ rateLimitStore[ip].resetTime < now)
              => PeekInfo(rateLimitStore, ip, now).used = 0

C4_Step ==
    \A ip \in Clients :
        (res'.op = "request" /\ res'.client = ip /\ res'.action = "download")
           => /\ res'.message = "Download recorded"
                   => /\ res'.rateLimit.used = PeekInfo(rateLimitStore, ip, now).used + 1
                      /\ res'.rateLimit = PeekInfo(rateLimitStore', ip, now')
                      /\ Len(rateLimitStore'[ip].downloads) = res'.rateLimit.used
              /\ res'.status = 429
                   => /\ PeekInfo(rateLimitStore', ip, now').used
                           = PeekInfo(rateLimitStore, ip, now).used
                      /\ log' = log

C4_DownloadConsumesOne == [][C4_Step]_vars

C4_Witness ==
    /\ res.op = "request" /\ res.action = "download"
    /\ res.message = "Download recorded"
    /\ res.rateLimit.used = HOURLY_LIMIT
    /\ res.rateLimit.remaining = 0

\* C5: a search action, whatever its outcome, adds no event to the client's
\* window and does not increase the client's used count.
C5_Step ==
    \A ip \in Clients :
        (res'.op = "request" /\ res'.client = ip /\ res'.action = "search")
           => /\ Len(rateLimitStore'[ip].downloads) <= Len(rateLimitStore[ip].downloads)
              /\ PeekInfo(rateLimitStore', ip, now').used
                    <= PeekInfo(rateLimitStore, ip, now).used
              /\ log' = log

C5_SearchConsumesNothing == [][C5_Step]_vars

C5_Witness ==
    /\ res.op = "request" /\ res.action = "search" /\ res.message = "Success"
    /\ res.rateLimit.used = 3
    /\ Len(rateLimitStore["a"].downloads) = 3

\* C6: an image whose fetch fails on attempts 1 and 2 and succeeds on attempt 3
\* ends as a success after exactly 3 attempts: it is in the downloaded list, not
\* in the failure list, and exactly one download has been recorded for it.
C6_ThirdAttemptSucceeds ==
    LET o == run.last
    IN  (/\ o.status # "none"
         /\ Len(o.tries) = 3
         /\ o.tries[1] = "fetchError" /\ o.tries[2] = "fetchError"
         /\ o.tries[3] # "fetchError")
           => /\ o.status = "Success"
              /\ o.attempts = 3
              /\ o.recorded = 1
              /\ o.id \in Range(page.downloadedImages)
              /\ o.id \notin Range(run.failed)

\* C7: whenever downloadWithRetry returns the bytes of an image, a record call
\* for it has completed successfully before: every image handed to the packager
\* in the run is one the endpoint has recorded a download for.
C7_BytesOnlyAfterRecord ==
    /\ run.last.status = "Success"
          => /\ run.last.recorded = 1
             /\ run.last.id \in run.recordedFor
    /\ run.pc # "idle" => Range(page.downloadedImages) \subseteq run.recordedFor

C7_Witness ==
    /\ run.last.status = "Success"
    /\ run.last.tries = <<"fetchError", "ok">>
    /\ run.last.id \in Range(page.downloadedImages)
    /\ run.last.id \in run.recordedFor

C8_Step ==
    /\ (~page.showRateLimitModal /\ page'.showRateLimitModal)
          => /\ page.rateLimitInfo # NoInfo
             /\ page.rateLimitInfo.remaining < run'.request.n
             /\ run'.request.remaining = page.rateLimitInfo.remaining
             /\ run' = [run EXCEPT !.request = run'.request]
             /\ run'.pc \in {"idle", "zip"}
             /\ ~page'.isDownloading
             /\ page'.downloadedImages = page.downloadedImages
             /\ rateLimitStore' = rateLimitStore /\ log' = log
    /\ (run.pc \in {"idle", "zip"} /\ run'.pc = "fetch" /\ ~run'.retry)
          => \/ page.rateLimitInfo = NoInfo
             \/ page.rateLimitInfo.remaining >= Len(run'.images)

NoneOk(tries, n) == \A k \in 1..n : tries[k] # "ok"

C9_AtMostThreeAttempts ==
    /\ run.pc \in {"fetch", "record"}
          => /\ run.attempt \in 1..3
             /\ Len(run.tries) = run.attempt - 1
             /\ NoneOk(run.tries, Len(run.tries))
    /\ run.last.status = "Failed"
          => /\ run.last.attempts = 3
             /\ Len(run.last.tries) = 3
             /\ NoneOk(run.last.tries, 3)
    /\ run.last.status = "Success"
          => /\ run.last.attempts \in 1..3
             /\ Len(run.last.tries) = run.last.attempts
             /\ run.last.tries[run.last.attempts] = "ok"
             /\ NoneOk(run.last.tries, run.last.attempts - 1)

C9_Witness ==
    /\ run.last.status = "Failed"
    /\ run.last.tries = <<"fetchError", "recordError", "fetchError">>
    /\ run.last.id \in Range(run.failed)

\* C10: an image that exhausts its retries is appended to the failure list and
\* the run goes on with the next image; a run over N images ends only after
\* all N are processed, and the loop of every run ends (the run is then over,
\* or awaits its archive).
C10_Step ==
    /\ (run'.last.status = "Failed" /\ run'.last # run.last)
          => /\ run'.failed = Append(run.failed, run.images[run.i])
             /\ run'.completed = run.completed + 1
             /\ run'.images = run.images
             /\ IF run.i < Len(run.images)
                THEN \/ run'.pc = "pace" /\ run'.i = run.i
                     \/ run'.pc = "fetch" /\ run'.i = run.i + 1
                ELSE run'.pc \in {"pace", "zip"}
    /\ (run.pc = "pace" /\ run.i < Len(run.images))
          => run'.pc \in {"pace", "fetch"}
    /\ (run.pc # "idle" /\ (run'.pc = "idle" \/ run'.finalizing > run.finalizing))
          => /\ run.completed = Len(run.images)
             /\ run.i = Len(run.images)
             /\ \A k \in 1..Len(run.failed) : run.failed[k] \in Range(run.images)

C10_PartialFailureNotFatal ==
    /\ [][C10_Step]_vars
    /\ (run.pc \notin {"idle", "zip"}) ~> (run.pc \in {"idle", "zip"})

C10_Witness ==
    /\ run.pc \in {"pace", "zip"}
    /\ Len(run.images) = 3 /\ run.i = 3 /\ run.completed = 3
    /\ run.failed = <<1, 3>>
    /\ page.downloadedImages = <<2>>

\* C11: when a run ends, every image selected for it is in exactly one of the
\* downloaded list and the failure list: the two lists together hold the images
\* of the run, each of them once.
NoRepeat(seq) == Cardinality(Range(seq)) = Len(seq)

C11_Step ==
    (run.pc # "idle" /\ run'.pc = "idle")
       => /\ Range(page'.downloadedImages) \cup Range(page'.failedDownloads)
                = Range(run.images)
          /\ Range(page'.downloadedImages) \cap Range(page'.failedDownloads) = {}
          /\ NoRepeat(page'.downloadedImages)
          /\ NoRepeat(page'.failedDownloads)

C12_Step ==
    (run.pc \notin {"idle", "zip"} /\ run'.pc # "idle" /\ run'.i # run.i)
       => /\ run'.i = run.i + 1
          /\ run'.completed = run.i
          /\ run'.last.id = run.images[run.i]
          /\ run'.pc = "fetch" /\ run'.attempt = 1
          /\ run'.images = run.images

C12_InOrder ==
    /\ run.pc \in {"fetch", "record"}
          => /\ run.i \in 1..Len(run.images)
             /\ run.completed = run.i - 1
    /\ run.pc \in {"pace", "zip"}
          => /\ run.completed = run.i
             /\ run.last.id = run.images[run.i]
    /\ \A j, k \in 1..Len(run.images) : j < k => run.images[j] < run.images[k]

C12_OneAtATime == [](C12_InOrder) /\ [][C12_Step]_vars

C12_Witness ==
    /\ run.pc = "fetch" /\ run.i = 3 /\ run.completed = 2
    /\ run.last.id = 2 /\ run.last.status = "Success"
    /\ page.downloadedImages = <<2>> /\ run.failed = <<1>>

\* C13: from the start of a run to its end the progress value never decreases,
\* whatever else the user does meanwhile.
C13_Step ==
    (run.pc # "idle" /\ run'.pc # "idle")
       => page'.downloadProgress.n * page.downloadProgress.d
             >= page.downloadProgress.n * page'.downloadProgress.d

C13_ProgressNeverDecreases == [][C13_Step]_vars

\* C14: the step in which an image of a run over N images completes, with a
\* blob or with null, sets the progress to completed / N, where completed is the
\* number of images of the run processed so far; the step in which the last
\* image completes sets it to N / N, that is 100 percent.
C14_Step ==
    (run'.last # run.last /\ run'.last.status # "none")
       => /\ run'.completed = run.i
          /\ page'.downloadProgress = [n |-> run.i, d |-> Len(run.images)]
          /\ run.i = Len(run.images)
                => page'.downloadProgress.n = page'.downloadProgress.d

C14_ProgressIsCompletedOverTotal == [][C14_Step]_vars

C14_Witness ==
    /\ Len(run.images) = 3 /\ run.completed = 3
    /\ run.last.id = 3 /\ run.last.status = "Failed"
    /\ page.downloadedImages = <<1, 2>>
    /\ page.downloadProgress = [n |-> 3, d |-> 3]

\* C15: every response of the handler that has a body carries the quota
\* snapshot of the client as it is when the response is sent: what a peek for
\* the client would return at that moment.  (The reply to OPTIONS has no body.)
C15_SnapshotIsCurrent ==
    (res.op = "request" /\ res.message # "")
       => res.rateLimit = PeekInfo(rateLimitStore, res.client, now)

\* C16: however the requests of one client are interleaved, no accepted
\* download is lost from the count: in an open window no more than HOURLY_LIMIT
\* downloads have been accepted (of two requests for the last unit one is
\* refused), and the used count an accepted download returns is the number
\* of downloads accepted in the window.
C16_NoLostUpdate ==
    \A ip \in Clients :
        Active(rateLimitStore, ip, now)
           => /\ RecordedInWindow(ip) <= HOURLY_LIMIT
              /\ (res.op = "request" /\ res.client = ip
                     /\ res.message = "Download recorded")
                    => res.rateLimit.used = RecordedInWindow(ip)

\* C17: the requests of one client key never change the window of another.
\* A step taken for key A (a response to A, or a search of A begun or ended)
\* leaves the entry of every other key B, and what a peek for B returns, as
\* they were; and what the handler would answer B now depends on no entry but
\* B's own.  Hence the snapshots reported to B are the same whatever A sends.
ProbeRequests ==
    { Req("GET", "json", "gallery", "other", "images"),
      Req("POST", "json", "none", "download", "images"),
      Req("POST", "json", "gallery", "download", "images"),
      Req("POST", "json", "gallery", "search", "images"),
      Req("POST", "json", "gallery", "search", "empty") }

StepOf(ip) ==
    \/ res'.op = "request" /\ res'.client = ip
    \/ pending'[ip] # pending[ip]

C17_Step ==
    \A A, B \in Clients :
        (A # B /\ StepOf(A))
           => /\ rateLimitStore'[B] = rateLimitStore[B]
              /\ log'[B] = log[B]
              /\ pending'[B] = pending[B]
              /\ PeekInfo(rateLimitStore', B, now') = PeekInfo(rateLimitStore, B, now)

C17_OwnEntryOnly ==
    \A A, B \in Clients :
        A # B =>
           \A req \in ProbeRequests :
               LET r == handler(rateLimitStore, B, req, now)
                   q == handler([rateLimitStore EXCEPT ![A] = NoEntry], B, req, now)
               IN  /\ r.rateLimit = q.rateLimit
                   /\ r.status = q.status
                   /\ r.store[B] = q.store[B]
                   /\ r.store[A] = rateLimitStore[A]

C17_ClientsIsolated == [](C17_OwnEntryOnly) /\ [][C17_Step]_vars

C17_Witness ==
    /\ Len(log["b"]) = InitUsed + 1
    /\ Len(log["a"]) = InitUsed + 2
    /\ res.client = "a" /\ res.message = "Download recorded"
    /\ rateLimitStore["b"].downloads = log["b"]
    /\ PeekInfo(rateLimitStore, "b", now).used = InitUsed + 1

\* C18: a scan that found N raw URLs, D of them with a highest-quality URL
\* already met among the earlier ones, leaves exactly N - D descriptors, in the
\* order in which their URLs were first met; their URLs are pairwise distinct
\* and their filenames carry the indices 1 .. N - D in that order, so that
\* the filenames are pairwise distinct too.
FirstSeen(raw) ==
    {k \in 1..Len(raw) :
        \A j \in 1..(k - 1) :
            getHighestQualityUrl(raw[j]) # getHighestQualityUrl(raw[k])}

C18_DedupInFirstSeenOrder ==
    LET raw == extraction.raw
        images == extraction.images
        N == Len(raw)
        D == N - Cardinality(FirstSeen(raw))
    IN  /\ Len(images) = N - D
        /\ \A j \in 1..Len(images) :
              /\ images[j].index = j
              /\ \E k \in FirstSeen(raw) :
                    /\ Cardinality({m \in FirstSeen(raw) : m <= k}) = j
                    /\ images[j].url = getHighestQualityUrl(raw[k])
        /\ \A j, k \in 1..Len(images) :
              j # k => /\ images[j].url # images[k].url
                       /\ <<images[j].index, images[j].ext>>
                             # <<images[k].index, images[k].ext>>

C18_Witness ==
    /\ extraction.outcome = "images"
    /\ Len(extraction.raw) = 3
    /\ extraction.raw[1] = CdnUrl("a", "400")
    /\ extraction.raw[2] = CdnUrl("b", "original")
    /\ extraction.raw[3] = CdnUrl("a", "1400")
    /\ Len(extraction.images) = 2
    /\ extraction.images[2].url = <<"https:", "/", "/", "cdn", "/", "original", "/", "b">>

\* C19: the page is scrolled and scanned a second time at most once in a call,
\* and only when the first scan left no descriptor; the call fails with the
\* no-images error exactly when both scans were made and left no descriptor;
\* a call that returns returns at least one descriptor.
C19_Step ==
    /\ extraction'.scrolls # extraction.scrolls
          => /\ extraction.scrolls = 0 /\ extraction'.scrolls = 1
             /\ extraction.scans = 1
             /\ extraction.images = <<>>
    /\ (extraction'.scans # extraction.scans /\ extraction.scans >= 1)
          => /\ extraction.scans = 1 /\ extraction'.scans = 2
             /\ extraction.scrolls = 1
             /\ extraction.images = <<>>

C19_State ==
    /\ extraction.scrolls <= 1 /\ extraction.scans <= 2
    /\ extraction.pc = "done"
          => /\ extraction.outcome = "NoImagesFound"
                   <=> (extraction.scans = 2 /\ extraction.images = <<>>)
             /\ extraction.outcome = "images" => extraction.images # <<>>

C19_SecondScanOnlyWhenEmpty == [](C19_State) /\ [][C19_Step]_vars

C19_Witness ==
    /\ extraction.pc = "done"
    /\ extraction.outcome = "NoImagesFound"
    /\ extraction.scans = 2 /\ extraction.scrolls = 1
    /\ extraction.images = <<>>

\* C20: when a call of extractBehanceImages has ended, with images or with
\* any error, every browser it launched has been closed.
C20_BrowserClosedOnExit ==
    extraction.pc = "done"
       => /\ extraction.browser # "open"
          /\ extraction.closed = extraction.opened

C20_Witness ==
    /\ extraction.pc = "done"
    /\ extraction.outcome = "UpstreamLoad"
    /\ extraction.opened = 1 /\ extraction.closed = 1
    /\ extraction.browser = "closed"


\* The host, the path, the trailing slashes and the query string that u is
\* made of.
MadeOf(u, h, p, n, q) == u = h \o p \o Slashes(n) \o q

SearchPaths ==
    { <<"/", "search", "/", "projects">>,
      <<"/", "search", "/", "projects", "/", "gallery", "/", "123">> }

GalleryPaths ==
    { <<"/", "gallery", "/", "123">>,
      <<"/", "gallery", "/", "123", "/", "Name">>,
      <<"/", "gallery", "/", "Name">> }

OnBehance(h) == \E k \in 1..Len(h) : h[k] = "behance.net"

\* C21: a search whose URL validateAndCleanUrl or extractProjectId rejects is
\* never answered with a success status.
C21_RejectedUrlNeverSucceeds ==
    (call.fn = "search" /\ call.out.thrown # "") => ~RecordAccepted(res.status)

\* C22: two URLs that validateAndCleanUrl accepts and that are made of the
\* same host and path, whatever their trailing slashes and query strings,
\* give the same canonical URL and the same project id.
C22_SameCanonicalUrl ==
    \A h \in Hosts, p \in Paths :
       ((\E n \in 0..MaxSlashes, q \in Queries : MadeOf(call.arg.s, h, p, n, q))
           /\ call.out.thrown = "")
       => /\ call.fn = "validateAndCleanUrl" =>
                \A n \in 0..MaxSlashes, q \in Queries :
                    validateAndCleanUrl(h \o p \o Slashes(n) \o q) = call.out
          /\ call.fn = "extractProjectId" =>
                \A n \in 0..MaxSlashes, q \in Queries :
                    extractProjectId(h \o p \o Slashes(n) \o q) = call.out

C22_Witness ==
    /\ call.fn = "validateAndCleanUrl"
    /\ call.arg.s = <<"behance.net", "/", "gallery", "/", "123", "/", "Name",
                      "/", "/", "?", "q">>
    /\ call.out = Return(<<"behance.net", "/", "gallery", "/", "123", "/", "Name">>)

HasMarker(s) ==
    \/ \E k \in 1..Len(s), z \in Range(LowSizes) :
          \/ k + 2 <= Len(s) /\ SubSeq(s, k, k + 2) = <<"/", z, "/">>
          \/ k + 3 <= Len(s) /\ SubSeq(s, k, k + 3) = <<"/", z, "H", "/">>
          \/ k + 2 <= Len(s) /\ SubSeq(s, k, k + 2) = <<"_", z, ".">>
    \/ \E k \in 1..Len(s) :
          /\ k + 2 <= Len(s) /\ SubSeq(s, k, k + 2) = <<"/", "fs", "/">>
          /\ \E m \in (k + 3)..Len(s) : s[m] = "/"

\* C24: what getHighestQualityUrl returns for a URL with a low-resolution
\* marker has no such marker left and names the size 2000 or original.
C24_NoLowResolutionMarkerLeft ==
    (call.fn = "getHighestQualityUrl" /\ HasMarker(call.arg.s))
       => /\ ~HasMarker(call.out.value)
          /\ \E k \in 1..Len(call.out.value) :
                call.out.value[k] \in {"2000", "original"}

\* C25: the filename a descriptor's file is saved under is the same in the
\* archive and in individual mode, whatever the content type: the stem of the
\* descriptor's filename and .webp, .png or .jpg as the content type has it.
C25_SameFilenameInBothModes ==
    (call.arg.kind = "file" /\ call.fn \in {"zipFilename", "individualFilename"})
       => LET name == call.arg.s
              type == call.arg.t
              stem == SubSeq(name, 1, Len(name) - 2)
          IN  /\ call.out.value = zipFilename(name, type)
              /\ call.out.value = individualFilename(name, type)
              /\ \E e \in {"webp", "png", "jpg"} : call.out.value = stem \o <<".", e>>
              /\ type = <<"image", "/", "webp">> => call.out.value = stem \o <<".", "webp">>
              /\ type = <<"image", "/", "png">> => call.out.value = stem \o <<".", "png">>
              /\ type \in {<<>>, <<"image", "/", "jpeg">>, <<"image", "/", "gif">>}
                    => call.out.value = stem \o <<".", "jpg">>

C25_Witness ==
    /\ call.fn = "individualFilename"
    /\ call.arg.s = <<"my", "_", "project", "_", "2", ".", "gif">>
    /\ call.arg.t = <<"image", "/", "webp">>
    /\ call.out.value = <<"my", "_", "project", "_", "2", ".", "webp">>

\* C26: the archive of a run is named after the sanitized title that the
\* filenames of its descriptors begin with, followed by -gallery.zip.
C26_ArchiveNamedAfterProject ==
    call.fn = "archiveName"
       => call.out.value = sanitizeFilename(call.arg.s) \o <<"-gallery.zip">>

\* C27: recordDownload for a client the store holds an entry for leaves an
\* event of the present time in the client's entry and returns a snapshot
\* whose used counts the events of the entry, that one included.
C27_Step ==
    \A ip \in Callers :
       (rateLimitStore[ip].exists /\ res'.op = "record" /\ res'.client = ip)
          => /\ \E k \in 1..Len(rateLimitStore'[ip].downloads) :
                   rateLimitStore'[ip].downloads[k] = now
             /\ res'.rateLimit.used = Len(rateLimitStore'[ip].downloads)
             /\ res'.rateLimit.used >= 1

C27_RecordIsCounted == [][C27_Step]_vars

\* C28: recordDownload for a key the store holds no entry for does not throw,
\* returns used = 0 and remaining = HOURLY_LIMIT, and the store then holds an
\* entry without events for the key.
C28_Step ==
    \A ip \in Keys :
       ((ip \in Clients => ~rateLimitStore[ip].exists)
           /\ res'.op = "record" /\ res'.client = ip)
          => /\ res'.message # "TypeError"
             /\ res'.rateLimit.used = 0
             /\ res'.rateLimit.remaining = HOURLY_LIMIT
             /\ ip \in Clients
             /\ rateLimitStore'[ip].exists
             /\ rateLimitStore'[ip].downloads = <<>>

C28_RecordWithoutWindow == [][C28_Step]_vars

\* C29: getRateLimitInfo and checkRateLimitOnly add no event to the entry of
\* any client; allowed is remaining > 0 of the snapshot returned with it; and
\* getRateLimitInfo called again at the same time returns the same snapshot
\* and leaves the store as it is.
C29_Step ==
    res'.op \in {"peek", "tryConsume"}
       => /\ \A c \in Clients :
                /\ Len(rateLimitStore'[c].downloads) <= Len(rateLimitStore[c].downloads)
                /\ Range(rateLimitStore'[c].downloads)
                      \subseteq Range(rateLimitStore[c].downloads)
          /\ res'.op = "tryConsume" => res'.allowed = (res'.rateLimit.remaining > 0)
          /\ getRateLimitInfo(rateLimitStore', res'.client, now').info = res'.rateLimit
          /\ getRateLimitInfo(rateLimitStore', res'.client, now').store = rateLimitStore'

C29_PeekRecordsNothing == [][C29_Step]_vars

C29_Witness ==
    /\ res.op = "tryConsume"
    /\ ~res.allowed
    /\ res.rateLimit.used = HOURLY_LIMIT
    /\ Len(rateLimitStore[res.client].downloads) = HOURLY_LIMIT

---------------------------------------------------------------------------
(* The snapshot and the limit *)

\* C31: every snapshot the tracker returns to the handler has limit = 20,
\* used = the number of events in the client's window and
\* remaining = max(0, limit - used); and whatever requests the handler has
\* served, used is at most limit, so that used + remaining = limit.
C31_SnapshotConsistent ==
    /\ (res.op = "request" /\ res.rateLimit # NoInfo) =>
          /\ res.rateLimit.limit = HOURLY_LIMIT
          /\ res.rateLimit.used = Len(rateLimitStore[res.client].downloads)
          /\ res.rateLimit.remaining = Max(0, HOURLY_LIMIT - res.rateLimit.used)
          /\ res.rateLimit.used <= res.rateLimit.limit
          /\ res.rateLimit.used + res.rateLimit.remaining = res.rateLimit.limit
    /\ \A ip \in Callers :
          LET info == PeekInfo(rateLimitStore, ip, now)
          IN  /\ info.limit = HOURLY_LIMIT
              /\ info.used <= info.limit
              /\ info.remaining = Max(0, info.limit - info.used)
              /\ info.used + info.remaining = info.limit

\* The twentieth download of a window has just been accepted.
C31_Witness ==
    /\ res.op = "request"
    /\ res.action = "download"
    /\ res.status = 200
    /\ res.rateLimit.used = HOURLY_LIMIT
    /\ res.rateLimit.remaining = 0
    /\ Len(rateLimitStore[res.client].downloads) = HOURLY_LIMIT

\* C32: a sweep removes every window whose reset time has passed and no
\* other: after the sweep the store holds no window with resetTime < now, and
\* a window whose reset time has not passed, like a key without a window, is
\* as it was.
C32_Step ==
    (res' = NoRes /\ now' = now) =>
       \A ip \in Clients :
          /\ rateLimitStore'[ip].exists => ~(rateLimitStore'[ip].resetTime < now)
          /\ (rateLimitStore[ip].exists /\ rateLimitStore[ip].resetTime < now)
                => ~rateLimitStore'[ip].exists
          /\ ~(rateLimitStore[ip].exists /\ rateLimitStore[ip].resetTime < now)
                => rateLimitStore'[ip] = rateLimitStore[ip]

C32_SweepRemovesExpiredOnly == [][C32_Step]_vars

\* A sweep has removed a window that was opened, and recorded into, less than
\* an hour and a second ago.
C32_Witness ==
    /\ res = NoRes
    /\ \E ip \in Callers :
          /\ ~rateLimitStore[ip].exists
          /\ log[ip] # <<>>

---------------------------------------------------------------------------
(* The page's record request and its retries *)

\* C33: whenever the page's client has quota left, the record request sent
\* after an image was fetched is accepted by the handler (answered 200, not
\* 400 for a missing or unrecognized gallery URL) and the client's used count
\* goes up by one.
C33_Step ==
    (/\ run.pc = "record"
     /\ run' # run
     /\ PeekInfo(rateLimitStore, PageClient, now).remaining > 0)
       => /\ res'.action = "download"
          /\ res'.status = 200
          /\ PeekInfo(rateLimitStore', PageClient, now').used
                = PeekInfo(rateLimitStore, PageClient, now).used + 1

C33_RecordRequestAccepted == [][C33_Step]_vars

\* C34: once the fetch of an image has succeeded in a run, the image is not
\* fetched again in that run: a record call that fails afterwards starts no
\* other transfer of the image, and does not make the image a failed one.
C34_FetchedOnce ==
    /\ run.pc \in {"fetch", "record"} => "recordError" \notin Range(run.tries)
    /\ run.last.status = "Failed" => "recordError" \notin Range(run.last.tries)

---------------------------------------------------------------------------
(* Runs of a page session *)

\* C35: at any time at most one download run is in progress in a page session
\* (a run that still finalizes its archive is in progress), and isDownloading
\* is true for as long as any run is in progress.
C35_OneRunAtATime ==
    LET inProgress == run.finalizing + (IF run.pc = "idle" THEN 0 ELSE 1)
    IN  /\ inProgress <= 1
        /\ inProgress > 0 => page.isDownloading

---------------------------------------------------------------------------
(* The window at its boundary, sweeps, searches and reset times *)

\* C36: while a client's window is Active (now has not passed its reset
\* time), the used count a peek reports is the number of download actions
\* accepted since the window was opened; pruning drops no event of the window
\* before the window resets, also at the instant now = resetTime.
C36_PeekCountsWindow ==
    \A ip \in Callers :
        Active(rateLimitStore, ip, now)
           => PeekInfo(rateLimitStore, ip, now).used = RecordedInWindow(ip)

\* C37: the sweep is unobservable.  The requests the handler is sent:
SentRequests ==
    { Req("POST", "json", "gallery", "search", x) : x \in Extractions } \cup
    { Req("POST", "json", "gallery", "download", "images"),
      Req("OPTIONS", "json", "none", "other", "images"),
      Req("GET", "json", "gallery", "other", "images"),
      Req("POST", "missing", "none", "other", "images"),
      Req("POST", "json", "none", "download", "images"),
      Req("POST", "json", "other", "search", "images"),
      Req("POST", "json", "gallery", "other", "images") }

\* The instants the clock may show from now on.
Later == {Instant(k) : k \in {j \in 0..MaxTick : Instant(j) >= now}}

\* C37: in every reachable state, a sweep run now changes no response to come:
\* whatever request arrives next, now or at any later instant, its status,
\* message and snapshot are the same with and without the sweep, and the two
\* stores it leaves differ at most in entries that are expired at that
\* instant (which a sweep then would remove from both).  By induction on the
\* requests, every response of a sequence of requests and clock advances is
\* the same whether or not sweeps run in between.
C37_SweepUnobservable ==
    \A ip \in Callers, req \in SentRequests, t \in Later :
        LET a == handler(rateLimitStore, ip, req, t)
            b == handler(cleanupRateLimitStore(rateLimitStore, now), ip, req, t)
        IN  /\ a.status = b.status
            /\ a.message = b.message
            /\ a.rateLimit = b.rateLimit
            /\ cleanupRateLimitStore(a.store, t) = cleanupRateLimitStore(b.store, t)

\* The store holds an expired window with an event in it, which a sweep would
\* remove, and a download of that client would now be answered with used = 1.
C37_Witness ==
    \E ip \in Callers :
       /\ rateLimitStore[ip].exists
       /\ rateLimitStore[ip].resetTime < now
       /\ rateLimitStore[ip].downloads # <<>>
       /\ cleanupRateLimitStore(rateLimitStore, now) # rateLimitStore
       /\ handler(rateLimitStore, ip,
                  Req("POST", "json", "gallery", "download", "images"),
                  now).rateLimit.used = 1

\* C38: a search of a client whose remaining quota is 0 is refused with 429
\* and starts no extraction; a search for a recognized gallery URL of a client
\* with remaining > 0 is not refused and goes on to the extraction.  The
\* remaining quota is what a peek reports when the search arrives.
C38_State ==
    \A ip \in Callers, x \in Extractions :
        LET info == PeekInfo(rateLimitStore, ip, now)
            r == handler(rateLimitStore, ip,
                         Req("POST", "json", "gallery", "search", x), now)
        IN  /\ info.remaining = 0
                  => /\ r.status = 429
                     /\ r.message = "Rate limit exceeded"
                     /\ r.rateLimit.remaining = 0
            /\ info.remaining > 0 => r.status \notin {429, 400}

C38_Step ==
    \A ip \in Callers :
        LET info == PeekInfo(rateLimitStore, ip, now)
        IN  /\ (pending'[ip].active /\ ~pending[ip].active) => info.remaining > 0
            /\ (/\ res'.op = "request" /\ res'.client = ip
                /\ res'.action = "search" /\ res'.status = 429)
                  => /\ info.remaining = 0
                     /\ pending' = pending
                     /\ extraction' = extraction
            /\ (/\ ~pending[ip].active /\ info.remaining > 0
                /\ res'.op = "none" /\ now' = now /\ pending' # pending)
                  => pending'[ip].active

C38_SearchRefusedAtZero == [](C38_State) /\ [][C38_Step]_vars

\* A search has just been refused with 429: the client's window holds
\* HOURLY_LIMIT events and no extraction is pending for the client.
C38_Witness ==
    /\ res.op = "request"
    /\ res.action = "search"
    /\ res.status = 429
    /\ res.rateLimit.remaining = 0
    /\ ~pending[res.client].active
    /\ Len(rateLimitStore[res.client].downloads) = HOURLY_LIMIT

\* C39: the reset time of a window is fixed when the window is opened, at the
\* time of that observation plus one hour; no step changes it while the window
\* is Active, in particular no peek, tryConsume or record; and every snapshot
\* returned carries the reset time of the client's window, which is not
\* earlier than the time of the call.
C39_Step ==
    \A ip \in Callers :
        /\ Active(rateLimitStore, ip, now)
              => /\ rateLimitStore'[ip].exists
                 /\ rateLimitStore'[ip].resetTime = rateLimitStore[ip].resetTime
        /\ (res'.op \in {"peek", "tryConsume", "record"} /\ res'.client = ip)
              => /\ ~Active(rateLimitStore, ip, now)
                       => rateLimitStore'[ip].resetTime = now + RATE_LIMIT_WINDOW
                 /\ res'.rateLimit.resetTime = rateLimitStore'[ip].resetTime
                 /\ res'.rateLimit.resetTime >= now'

C39_State ==
    /\ \A ip \in Callers :
          rateLimitStore[ip].exists
             => \E k \in 0..MaxTick :
                   /\ Instant(k) <= now
                   /\ rateLimitStore[ip].resetTime = Instant(k) + RATE_LIMIT_WINDOW
    /\ res.op \in {"peek", "tryConsume", "record"} => res.rateLimit.resetTime >= now

C39_ResetTimeFixed == [](C39_State) /\ [][C39_Step]_vars

\* A record was made at the very instant the window's reset time is reached:
\* the window was still Active, kept its reset time, and the snapshot carries it.
C39_Witness ==
    /\ res.op = "record"
    /\ now > 0
    /\ res.rateLimit.resetTime = now
    /\ rateLimitStore[res.client].resetTime = now
    /\ rateLimitStore[res.client].downloads # <<>>


=========================================================================
